---------------------------- MODULE Spec2Model ----------------------------
(***************************************************************************)
(* AviFlux frontend: the ICAO route form (Hero / HomePage), its validators *)
(* and the request wrapper safePostRequest.                                *)
(*                                                                         *)
(* A JavaScript string is a sequence of one-character strings.  Three      *)
(* variants of the form exist in the repository:                           *)
(*   "toast" - Hero with validateICAOList and sonner toasts                *)
(*   "regex" - Hero with isValidICAOList and alert()                       *)
(*   "home"  - the earlier HomePage with an inline test and fakeApiCall    *)
(***************************************************************************)
EXTENDS Naturals, Sequences, FiniteSets

VARIABLES
    variant,     \* which variant of the form is mounted
    icaoCodes,   \* useState("") : the field text
    loading,     \* useState(false) : the loading flag
    page,        \* the router's location: Home, or the last navigate() target
    inflight,    \* outstanding requests (fetch / fakeApiCall promises)
    orphans,     \* ids of outstanding requests whose form was unmounted
    submitCalls, \* number of calls of safePostRequest / fakeApiCall
    fetchCalls,  \* number of outbound requests issued (fetch / timer)
    last,        \* what the most recent handler run did
    detail,      \* PlanDetailPage: its route id, state and pending fetches
    str,         \* argument of a direct validator call
    verdict      \* result of that call

vars == <<variant, icaoCodes, loading, page, inflight, orphans,
          submitCalls, fetchCalls, last, detail, str, verdict>>

-----------------------------------------------------------------------------
(* Bounds *)

\* the number of comma-separated pieces of a validator input
MaxTokens == 3

\* the number of submit events that pass validation in one behaviour
MaxSubmits == 2

\* the number of changes of the route id while the plan page is mounted
MaxRouteChanges == 2

-----------------------------------------------------------------------------
(* Characters and strings *)

UpperLetters == {"K", "J", "F", "O", "R", "D", "S", "X"}

LowerLetters == {"k", "j", "f", "o", "r", "d"}

Digits == {"1"}

\* what String.prototype.trim strips and what \s matches
WhiteSpace == {" ", "\t"}

\* the {4} of the code pattern
CodeLen == 4

\* String.prototype.toUpperCase on one character
UpperChar(c) ==
    CASE c = "k" -> "K"
      [] c = "j" -> "J"
      [] c = "f" -> "F"
      [] c = "o" -> "O"
      [] c = "r" -> "R"
      [] c = "d" -> "D"
      [] OTHER -> c

\* a field that stores the text as typed
AsTyped(s) == s

toUpperCase(s) == [i \in 1..Len(s) |-> UpperChar(s[i])]

RECURSIVE TrimStart(_)
TrimStart(s) ==
    IF s = <<>> THEN s
    ELSE IF Head(s) \in WhiteSpace THEN TrimStart(Tail(s)) ELSE s

RECURSIVE TrimEnd(_)
TrimEnd(s) ==
    IF s = <<>> THEN s
    ELSE IF s[Len(s)] \in WhiteSpace THEN TrimEnd(SubSeq(s, 1, Len(s) - 1))
    ELSE s

\* trimStart in place of trim
TrimStartOnly(s) == TrimStart(s)

\* String.prototype.trim
trim(s) == TrimEnd(TrimStart(s))

\* String.prototype.split(","): the pieces between the commas, in order
RECURSIVE split(_)
split(s) ==
    IF \A i \in 1..Len(s) : s[i] # ","
    THEN <<s>>
    ELSE LET c == CHOOSE i \in 1..Len(s) :
                      s[i] = "," /\ \A j \in 1..(i - 1) : s[j] # ","
         IN  <<SubSeq(s, 1, c - 1)>> \o split(SubSeq(s, c + 1, Len(s)))

\* the pattern without its {4}
MissesLengthCheck(code) == \A i \in 1..Len(code) : code[i] \in UpperLetters

\* /^[A-Z]{4}$/.test(code)

IsCode(code) ==
    /\ Len(code) = CodeLen
    /\ \A i \in 1..Len(code) : code[i] \in UpperLetters

-----------------------------------------------------------------------------
(* The validators *)

Null == [t |-> "null"]

ErrEmpty == [t |-> "error", reason |-> "empty", code |-> <<>>]

ErrTooFew == [t |-> "error", reason |-> "too_few", code |-> <<>>]

ErrInvalid(code) == [t |-> "error", reason |-> "invalid_code", code |-> code]

\* a validator without the check of the number of codes
AcceptsSingleCode(s) ==
    LET trimmedStr == trim(s) IN
    IF trimmedStr = <<>> THEN ErrEmpty
    ELSE LET raw == split(trimmedStr)
             codes == [i \in 1..Len(raw) |-> trim(raw[i])]
             bad == {i \in 1..Len(codes) : ~IsCode(codes[i])}
         IN  IF bad = {} THEN Null
             ELSE ErrInvalid(codes[CHOOSE i \in bad : \A j \in bad : i <= j])

\* a validator that checks the codes before it counts them
ChecksCodesFirst(s) ==
    LET trimmedStr == trim(s) IN
    IF trimmedStr = <<>> THEN ErrEmpty
    ELSE LET raw == split(trimmedStr)
             codes == [i \in 1..Len(raw) |-> trim(raw[i])]
             bad == {i \in 1..Len(codes) : ~IsCode(codes[i])}
         IN  IF bad # {}
             THEN ErrInvalid(codes[CHOOSE i \in bad : \A j \in bad : i <= j])
             ELSE IF Len(codes) < 2 THEN ErrTooFew
             ELSE Null

\* a validator that drops the empty pieces before it counts and checks
FiltersEmptyTokens(s) ==
    LET trimmedStr == trim(s) IN
    IF trimmedStr = <<>> THEN ErrEmpty
    ELSE LET raw == split(trimmedStr)
             whole == [i \in 1..Len(raw) |-> trim(raw[i])]
             codes == SelectSeq(whole, LAMBDA c : c # <<>>)
             bad == {i \in 1..Len(codes) : ~IsCode(codes[i])}
         IN  IF Len(codes) < 2 THEN ErrTooFew
             ELSE IF bad = {} THEN Null
             ELSE ErrInvalid(codes[CHOOSE i \in bad : \A j \in bad : i <= j])

\* validateICAOList's local `codes`: the pieces of the trimmed input, each
\* trimmed
codesOf(s) ==
    LET raw == split(trim(s)) IN [i \in 1..Len(raw) |-> trim(raw[i])]

\* Hero.validateICAOList: null, or the message of the first failed check
validateICAOList(s) ==
    LET trimmedStr == trim(s) IN
    IF trimmedStr = <<>> THEN ErrEmpty
    ELSE LET raw == split(trimmedStr)
             codes == [i \in 1..Len(raw) |-> trim(raw[i])]
             bad == {i \in 1..Len(codes) : ~IsCode(codes[i])}
         IN  IF Len(codes) < 2 THEN ErrTooFew
             ELSE IF bad = {} THEN Null
             ELSE ErrInvalid(codes[CHOOSE i \in bad : \A j \in bad : i <= j])

\* \s* from position i: the first position that holds no white space
RECURSIVE SkipSpace(_, _)
SkipSpace(s, i) ==
    IF i <= Len(s) /\ s[i] \in WhiteSpace THEN SkipSpace(s, i + 1) ELSE i

\* [A-Z]{4} at position i
CodeAt(s, i) ==
    /\ i + CodeLen - 1 <= Len(s)
    /\ \A j \in i..(i + CodeLen - 1) : s[j] \in UpperLetters

\* (\s*,\s*[A-Z]{4})+$ from position i, n groups matched so far.  White
\* space, the comma and the letters are disjoint, so the greedy match is the
\* only one.
RECURSIVE Groups(_, _, _)
Groups(s, i, n) ==
    IF i = Len(s) + 1 THEN n >= 1
    ELSE LET c == SkipSpace(s, i)
             k == SkipSpace(s, c + 1)
         IN  /\ c <= Len(s)
             /\ s[c] = ","
             /\ CodeAt(s, k)
             /\ Groups(s, k + CodeLen, n + 1)

\* Hero.isValidICAOList: /^([A-Z]{4})(\s*,\s*[A-Z]{4})+$/.test(str.trim())
isValidICAOList(s) ==
    LET trimmedStr == trim(s) IN
    /\ CodeAt(trimmedStr, 1)
    /\ Groups(trimmedStr, 1 + CodeLen, 0)

\* HomePage.handleSubmit: /^[A-Z0-9, ]+$/.test(icaoCodes)
homeTest(s) ==
    /\ Len(s) >= 1
    /\ \A i \in 1..Len(s) : s[i] \in UpperLetters \cup Digits \cup {",", " "}

-----------------------------------------------------------------------------
(* Validator inputs: up to MaxTokens pieces joined by commas *)

Pieces ==
    { <<"K", "J", "F", "K">>,
      <<"K", "O", "R", "D">>,
      <<" ", "K", "S", "F", "O", "\t">>,
      <<"K", "J", "F">>,
      <<"K", "J", "F", "K", "X">>,
      <<"k", "j", "f", "k">>,
      <<"K", "1", "F", "K">>,
      <<"K", "J", " ", "F", "K">>,
      <<" ">>,
      <<>> }

RECURSIVE Joined(_)
Joined(n) ==
    IF n = 1 THEN Pieces
    ELSE {a \o <<",">> \o b : a \in Joined(n - 1), b \in Pieces}

Inputs == UNION {Joined(n) : n \in 1..MaxTokens}


-----------------------------------------------------------------------------
(* JavaScript values, the router and the network *)

Undefined == [t |-> "undefined"]

JsString(v) == [t |-> "string", v |-> v]

\* obj[key]: a property read; an object is a function from its keys
Get(obj, key) == IF key \in DOMAIN obj THEN JsString(obj[key]) ELSE Undefined

\* `${v}` in a template literal
TemplateString(v) == IF v.t = "undefined" THEN "undefined" ELSE v.v

Home == [at |-> "home", id |-> ""]

\* the location `/plan/${id}`
PlanRoute(id) == [at |-> "plan", id |-> id]

\* identifiers the backend assigns to plans
PlanIds == {"UUID-12345", "UUID-67890"}

\* JSON.stringify of a string: quoted, the tab escaped
RECURSIVE Escaped(_)
Escaped(s) ==
    IF s = <<>> THEN <<>>
    ELSE (IF Head(s) = "\t" THEN <<"\\", "t">> ELSE <<Head(s)>>)
         \o Escaped(Tail(s))

JSONstringify(s) == <<"\"">> \o Escaped(s) \o <<"\"">>

\* How a fetch can end: the promise rejects (network failure), or a Response
\* arrives with its ok flag, and a body that parses as JSON or does not.  A
\* success response carries an object with a plan_id.
FetchRejects == [kind |-> "rejected", ok |-> FALSE, json |-> FALSE, value |-> <<>>]

HttpError == [kind |-> "response", ok |-> FALSE, json |-> TRUE, value |-> <<>>]

BadBody == [kind |-> "response", ok |-> TRUE, json |-> FALSE, value |-> <<>>]

PlanResponse(p) ==
    [kind |-> "response", ok |-> TRUE, json |-> TRUE, value |-> [plan_id |-> p]]

FetchOutcomes ==
    {FetchRejects, HttpError, BadBody} \cup {PlanResponse(p) : p \in PlanIds}

\* the timer of fakeApiCall fires
TimerFires == [kind |-> "timer", ok |-> TRUE, json |-> TRUE, value |-> <<>>]

Outcomes(v) == IF v = "home" THEN {TimerFires} ELSE FetchOutcomes

\* whether the request behind an outcome completed with a success status
\* and a readable body
Succeeded(o) == o.kind \in {"response", "timer"} /\ o.ok /\ o.json

Fulfilled(value) == [state |-> "fulfilled", value |-> value]

Rejected == [state |-> "rejected", value |-> <<>>]

\* the object of the catch block of safePostRequest
Placeholder == [id |-> "UUID-12345"]

\* a wrapper whose catch block rethrows
PropagatesFailure(o) ==
    IF o.kind = "rejected" THEN Rejected
    ELSE IF ~o.ok THEN Rejected
    ELSE IF ~o.json THEN Rejected
    ELSE Fulfilled(o.value)

\* a wrapper that returns before reading the body
IgnoresBody(o) == Fulfilled(Placeholder)

\* safePostRequest after its fetch ended with outcome o: how its promise
\* settles.  A rejected fetch, the throw on !response.ok and a rejected
\* response.json() all land in the catch block, which returns.
safePostRequest(o) ==
    IF o.kind = "rejected" THEN Fulfilled(Placeholder)
    ELSE IF ~o.ok THEN Fulfilled(Placeholder)
    ELSE IF ~o.json THEN Fulfilled(Placeholder)
    ELSE Fulfilled(o.value)

\* HomePage's fakeApiCall once its timer fires
fakeApiCall == Fulfilled([plan_id |-> "UUID-12345"])

-----------------------------------------------------------------------------
(* The plan page *)

\* the two PlanDetailPage variants: useState<Plan>(null) and useState({})
DetailVariants == {"typed", "earlier"}

\* values of the :id route parameter
RouteIds == PlanIds \cup {"undefined"}

\* useState's initial plan
InitialPlan(v) == IF v = "typed" THEN Null ELSE <<>>

\* the plan page is not mounted
NoDetail ==
    [variant |-> "none", id |-> "", plan |-> Null, loading |-> FALSE,
     fetches |-> <<>>, changes |-> 0, served |-> ""]

\* a mock that rejects
fakePlanFetchRejects(id) == Rejected

\* fakePlanFetch once its timer fires
fakePlanFetch(id) ==
    Fulfilled([plan_id |-> id,
               route |-> <<"KJFK", "KORD", "KSFO">>,
               summary |-> <<"Weather good at departure", "Turbulence near ORD">>,
               risk_index |-> "amber"])

\* what the page renders: !plan is true of null only
View ==
    IF detail.loading THEN "loading"
    ELSE IF detail.plan = Null THEN "not_found"
    ELSE "plan"

-----------------------------------------------------------------------------
(* The form *)

Variants == {"toast", "regex", "home"}

\* texts a user types into the field
TypedTexts ==
    { <<>>,
      <<"K", "J", "F", "K">>,
      <<"k", "j", "f", "k", ",", "k", "o", "r", "d">>,
      <<"K", "J", "F", "K", ",", " ", "K", "O", "R", "D", ",", " ",
        "K", "S", "F", "O">>,
      <<"K", "J", "F", ",", "K", "O", "R", "D">>,
      <<"K", "J", "F", "K", ";", "K", "O", "R", "D">>,
      <<" ", "k", "o", "r", "d">> }

Notice(via, msg, info) == [via |-> via, msg |-> msg, detail |-> info]

NoReq == [id |-> 0, data |-> <<>>, body |-> <<>>]

NoOutcome == [kind |-> "none", ok |-> FALSE, json |-> FALSE, value |-> <<>>]

NoResult == [state |-> "none", value |-> <<>>]

Did(op, text, req, outcome, result, navigated, noticed) ==
    [op |-> op, text |-> text, req |-> req, outcome |-> outcome,
     result |-> result, navigated |-> navigated, noticed |-> noticed]

Nothing == Did("none", <<>>, NoReq, NoOutcome, NoResult, FALSE, <<>>)

\* the notices a failed validation produces in each variant; none when the
\* field text passes
ValidationNotices(v, text) ==
    CASE v = "toast" ->
            IF validateICAOList(text) # Null
            THEN <<Notice("toast.error", "validation", validateICAOList(text))>>
            ELSE <<>>
      [] v = "regex" ->
            IF ~isValidICAOList(text)
            THEN <<Notice("alert", "Invalid ICAO codes. Use format", Null)>>
            ELSE <<>>
      [] v = "home" ->
            IF ~homeTest(text)
            THEN <<Notice("alert", "Invalid ICAO codes. Use format like", Null)>>
            ELSE <<>>

\* JSON.stringify of an array of strings
RECURSIVE JoinedItems(_)
JoinedItems(items) ==
    IF items = <<>> THEN <<>>
    ELSE JSONstringify(Head(items))
         \o (IF Len(items) > 1 THEN <<",">> ELSE <<>>)
         \o JoinedItems(Tail(items))

\* a wrapper that posts the array of codes
NewRequestPostsArray(v, id, data) ==
    [id |-> id, data |-> data,
     body |-> IF v = "home" THEN <<>>
              ELSE <<"[">> \o JoinedItems(split(data)) \o <<"]">>]

\* the request a submit issues: safePostRequest posts JSON.stringify(data),
\* fakeApiCall only starts a timer
NewRequest(v, id, data) ==
    [id |-> id, data |-> data,
     body |-> IF v = "home" THEN <<>> ELSE JSONstringify(data)]

Init ==
    /\ variant \in Variants
    /\ icaoCodes = <<>>
    /\ loading = FALSE
    /\ page = Home
    /\ inflight = {}
    /\ orphans = {}
    /\ submitCalls = 0
    /\ fetchCalls = 0
    /\ last = Nothing
    /\ detail = NoDetail
    /\ str = <<>>
    /\ verdict = [done |-> FALSE, error |-> Null, regex |-> FALSE]

\* <Input onChange>: setIcaoCodes(e.target.value.toUpperCase())
Edit(typed) ==
    /\ page = Home
    /\ icaoCodes' = toUpperCase(typed)
    /\ last' = Did("edit", typed, NoReq, NoOutcome, NoResult, FALSE, <<>>)
    /\ UNCHANGED <<variant, loading, page, inflight, orphans, submitCalls,
                   fetchCalls, str, verdict, detail>>

\* a handler that reports a failed validation and does not return
HandleSubmitNoReturn ==
    /\ page = Home
    /\ submitCalls < MaxSubmits
    /\ loading' = TRUE
    /\ submitCalls' = submitCalls + 1
    /\ fetchCalls' = fetchCalls + 1
    /\ inflight' = inflight \cup
           {NewRequest(variant, submitCalls + 1, icaoCodes)}
    /\ last' = Did("submit", icaoCodes,
                   NewRequest(variant, submitCalls + 1, icaoCodes),
                   NoOutcome, NoResult, FALSE,
                   ValidationNotices(variant, icaoCodes))
    /\ UNCHANGED <<variant, icaoCodes, page, orphans, str, verdict, detail>>

\* a handler that returns at once while the loading flag is up
HandleSubmitGuarded ==
    /\ page = Home
    /\ LET shown == ValidationNotices(variant, icaoCodes) IN
       IF loading \/ shown # <<>>
       THEN /\ last' = Did("submit", icaoCodes, NoReq, NoOutcome, NoResult,
                           FALSE, IF loading THEN <<>> ELSE shown)
            /\ UNCHANGED <<loading, inflight, submitCalls, fetchCalls>>
       ELSE /\ submitCalls < MaxSubmits
            /\ loading' = TRUE
            /\ submitCalls' = submitCalls + 1
            /\ fetchCalls' = fetchCalls + 1
            /\ inflight' = inflight \cup
                   {NewRequest(variant, submitCalls + 1, icaoCodes)}
            /\ last' = Did("submit", icaoCodes,
                           NewRequest(variant, submitCalls + 1, icaoCodes),
                           NoOutcome, NoResult, FALSE, <<>>)
    /\ UNCHANGED <<variant, icaoCodes, page, orphans, str, verdict, detail>>

\* handleSubmit up to its await: validate, and either report and return, or
\* set the loading flag and call safePostRequest / fakeApiCall, which issues
\* the request before it suspends
HandleSubmit ==
    /\ page = Home
    /\ LET shown == ValidationNotices(variant, icaoCodes) IN
       IF shown # <<>>
       THEN /\ last' = Did("submit", icaoCodes, NoReq, NoOutcome, NoResult,
                           FALSE, shown)
            /\ UNCHANGED <<loading, inflight, submitCalls, fetchCalls>>
       ELSE /\ submitCalls < MaxSubmits
            /\ loading' = TRUE
            /\ submitCalls' = submitCalls + 1
            /\ fetchCalls' = fetchCalls + 1
            /\ inflight' = inflight \cup
                   {NewRequest(variant, submitCalls + 1, icaoCodes)}
            /\ last' = Did("submit", icaoCodes,
                           NewRequest(variant, submitCalls + 1, icaoCodes),
                           NoOutcome, NoResult, FALSE, <<>>)
    /\ UNCHANGED <<variant, icaoCodes, page, orphans, str, verdict, detail>>

\* the rest of handleSubmit once the awaited promise settled with `result`:
\* what it shows, and where it navigates (Home: nowhere)
AfterAwait(v, result) ==
    LET target == PlanRoute(TemplateString(Get(result.value, "plan_id"))) IN
    CASE v = "toast" ->
            IF result.state = "fulfilled"
            THEN [noticed |-> <<Notice("toast.success",
                                       "Flight plan generated successfully!",
                                       Null)>>,
                  navigate |-> target]
            ELSE [noticed |-> <<Notice("toast.error",
                                       "Failed to generate flight plan.",
                                       Null)>>,
                  navigate |-> Home]
      [] v = "regex" ->
            IF result.state = "fulfilled"
            THEN [noticed |-> <<>>, navigate |-> target]
            ELSE [noticed |-> <<>>, navigate |-> Home]
      [] v = "home" ->
            IF result.state = "fulfilled"
            THEN [noticed |-> <<>>, navigate |-> target]
            ELSE [noticed |-> <<Notice("alert", "Failed to fetch plan.", Null)>>,
                  navigate |-> Home]

\* a wrapper that posts again when the request failed
SettleRetrying(r, o) ==
    /\ r \in inflight
    /\ IF Succeeded(o)
       THEN /\ page' = AfterAwait(variant, safePostRequest(o)).navigate
            /\ inflight' = inflight \ {r}
            /\ loading' = FALSE
            /\ UNCHANGED fetchCalls
       ELSE /\ fetchCalls' = fetchCalls + 1
            /\ UNCHANGED <<page, inflight, loading>>
    /\ last' = Did("settle", r.data, r, o, NoResult, Succeeded(o), <<>>)
    /\ UNCHANGED <<variant, icaoCodes, orphans, submitCalls, str, verdict,
                   detail>>

\* a handler without the finally block
SettleKeepsLoading(r, o) ==
    /\ r \in inflight
    /\ LET result == IF variant = "home" THEN fakeApiCall
                     ELSE safePostRequest(o)
           then == AfterAwait(variant, result)
       IN  /\ page' = IF then.navigate = Home THEN page ELSE then.navigate
           /\ last' = Did("settle", r.data, r, o, result,
                          then.navigate # Home, then.noticed)
           /\ orphans' = IF then.navigate = Home THEN orphans \ {r.id}
                         ELSE {q.id : q \in inflight \ {r}}
    /\ inflight' = inflight \ {r}
    /\ UNCHANGED <<loading, variant, icaoCodes, submitCalls, fetchCalls, str,
                   verdict, detail>>

\* request r ends with outcome o: safePostRequest / fakeApiCall settles and
\* handleSubmit resumes; its finally block clears the loading flag.  A
\* navigation unmounts the form, whose state is dropped (a later mount
\* starts from useState's initial values) and whose other requests stay
\* outstanding; setLoading of an unmounted form changes nothing.
Settle(r, o) ==
    /\ r \in inflight
    /\ LET result == IF variant = "home" THEN fakeApiCall
                     ELSE safePostRequest(o)
           then == AfterAwait(variant, result)
       IN  /\ page' = IF then.navigate = Home THEN page ELSE then.navigate
           /\ last' = Did("settle", r.data, r, o, result,
                          then.navigate # Home, then.noticed)
           /\ orphans' = IF then.navigate = Home THEN orphans \ {r.id}
                         ELSE {q.id : q \in inflight \ {r}}
           /\ loading' = IF then.navigate = Home /\ r.id \in orphans
                         THEN loading ELSE FALSE
    /\ inflight' = inflight \ {r}
    /\ UNCHANGED <<variant, icaoCodes, submitCalls, fetchCalls, str, verdict,
                   detail>>

\* the user returns to the form (history back): Hero mounts anew with the
\* initial values of its state
Back ==
    /\ page # Home
    /\ page' = Home
    /\ icaoCodes' = <<>>
    /\ loading' = FALSE
    /\ last' = Did("mount", <<>>, NoReq, NoOutcome, NoResult, FALSE, <<>>)
    /\ UNCHANGED <<variant, inflight, orphans, submitCalls, fetchCalls, str,
                   verdict, detail>>

Next ==
    \/ \E typed \in TypedTexts : Edit(typed)
    \/ HandleSubmit
    \/ Back
    \/ \E r \in inflight : \E o \in Outcomes(variant) : Settle(r, o)

Spec == Init /\ [][Next]_vars

\* every outstanding request eventually settles
SettleSome == \E r \in inflight : \E o \in Outcomes(variant) : Settle(r, o)

FairSpec == Spec /\ WF_vars(SettleSome)

-----------------------------------------------------------------------------
(* The plan page on its own *)

\* PlanDetailPage mounted at /plan/:id; its effect has called fakePlanFetch
InitPlan ==
    /\ variant = "toast"
    /\ icaoCodes = <<>>
    /\ loading = FALSE
    /\ inflight = {}
    /\ orphans = {}
    /\ submitCalls = 0
    /\ fetchCalls = 0
    /\ last = Nothing
    /\ str = <<>>
    /\ verdict = [done |-> FALSE, error |-> Null, regex |-> FALSE]
    /\ \E v \in DetailVariants : \E id \in RouteIds :
           /\ page = PlanRoute(id)
           /\ detail = [variant |-> v, id |-> id, plan |-> InitialPlan(v),
                        loading |-> TRUE, fetches |-> <<id>>, changes |-> 0,
                        served |-> ""]

\* the route id changes while the page stays mounted: the effect runs again
\* and calls fakePlanFetch(id); neither plan nor loading is reset
RouteChange(id) ==
    /\ id # detail.id
    /\ detail.changes < MaxRouteChanges
    /\ page' = PlanRoute(id)
    /\ detail' = [detail EXCEPT !.id = id,
                                 !.fetches = Append(@, id),
                                 !.changes = @ + 1]
    /\ UNCHANGED <<variant, icaoCodes, loading, inflight, orphans,
                   submitCalls, fetchCalls, last, str, verdict>>

\* the oldest timer fires (all delays are equal): fetchPlan resumes with
\* the mock's settlement, sets the plan when it is fulfilled, and clears
\* the loading flag in its finally block
PlanFetched ==
    /\ detail.fetches # <<>>
    /\ LET settled == fakePlanFetch(Head(detail.fetches)) IN
       detail' = [detail EXCEPT
                     !.plan = IF settled.state = "fulfilled"
                              THEN settled.value ELSE @,
                     !.loading = FALSE,
                     !.served = Head(detail.fetches),
                     !.fetches = Tail(@)]
    /\ UNCHANGED <<variant, icaoCodes, loading, page, inflight, orphans,
                   submitCalls, fetchCalls, last, str, verdict>>

NextPlan ==
    \/ \E id \in RouteIds : RouteChange(id)
    \/ PlanFetched

SpecPlan == InitPlan /\ [][NextPlan]_vars

\* every timer eventually fires
FairSpecPlan == SpecPlan /\ WF_vars(PlanFetched)

-----------------------------------------------------------------------------
(* Direct calls of the validators on arbitrary strings *)

InitValidate ==
    /\ variant \in Variants
    /\ icaoCodes = <<>>
    /\ loading = FALSE
    /\ page = Home
    /\ inflight = {}
    /\ orphans = {}
    /\ submitCalls = 0
    /\ fetchCalls = 0
    /\ last = Nothing
    /\ detail = NoDetail
    /\ str \in Inputs
    /\ verdict = [done |-> FALSE, error |-> Null, regex |-> FALSE]

\* a validator that writes the trimmed text back to the field
ValidateStoresTrimmed ==
    /\ ~verdict.done
    /\ verdict' = [done |-> TRUE, error |-> validateICAOList(str),
                   regex |-> isValidICAOList(str)]
    /\ icaoCodes' = trim(str)
    /\ UNCHANGED <<str, variant, loading, page, inflight, orphans,
                   submitCalls, fetchCalls, last, detail>>

Validate ==
    /\ ~verdict.done
    /\ verdict' = [done |-> TRUE, error |-> validateICAOList(str),
                   regex |-> isValidICAOList(str)]
    /\ UNCHANGED <<str, variant, icaoCodes, loading, page, inflight, orphans,
                   submitCalls, fetchCalls, last, detail>>

NextValidate == Validate

SpecValidate == InitValidate /\ [][NextValidate]_vars

-----------------------------------------------------------------------------
(* The route rule, stated on the positions of a string *)

\* s without its leading and trailing white space
Stripped(s) ==
    LET solid == {i \in 1..Len(s) : s[i] \notin WhiteSpace} IN
    IF solid = {} THEN <<>>
    ELSE SubSeq(s, CHOOSE i \in solid : \A j \in solid : i <= j,
                   CHOOSE i \in solid : \A j \in solid : i >= j)

FourUpper(t) == Len(t) = 4 /\ \A i \in 1..4 : t[i] \in UpperLetters

\* at least two comma-separated tokens, each of them, stripped, four
\* upper-case letters
RouteRule(s) ==
    LET t == Stripped(s)
        commas == {i \in 1..Len(t) : t[i] = ","}
        edges == {0} \cup commas \cup {Len(t) + 1}
        after(b) == CHOOSE c \in edges : c > b /\ \A d \in edges : d > b => c <= d
    IN  /\ Cardinality(commas) + 1 >= 2
        /\ \A b \in edges \ {Len(t) + 1} :
               FourUpper(Stripped(SubSeq(t, b + 1, after(b) - 1)))

-----------------------------------------------------------------------------
(* Properties *)

\* C1: a validator call succeeds exactly when the trimmed, comma-split and
\* token-trimmed input has at least 2 tokens that each are 4 upper-case
\* letters; this holds of validateICAOList and of isValidICAOList.
C1_ValidateIffRouteRule ==
    verdict.done =>
        /\ (verdict.error = Null) <=> RouteRule(str)
        /\ verdict.regex <=> RouteRule(str)

\* an accepted input of three codes with white space around one of them
C1_Witness ==
    /\ verdict.done
    /\ verdict.error = Null
    /\ verdict.regex
    /\ Len(split(str)) = 3
    /\ \E i \in 1..Len(str) : str[i] \in WhiteSpace

\* C2: in every variant, every request issued carries a field value with at
\* least 2 codes that each match the 4-upper-case-letter rule.
C2_SubmittedOnlyRoutes == \A r \in inflight : RouteRule(r.data)

\* C3: when the request fails (fetch rejects, non-success status, body not
\* parseable) the promise of safePostRequest rejects.
C3_FailureRejects ==
    (last.op = "settle" /\ variant # "home" /\ ~Succeeded(last.outcome))
        => last.result.state = "rejected"

\* C4: a navigation happens only after a request that completed with a
\* success status, and goes to /plan/p for the plan identifier p of its
\* response.
C4_NavigatesToAssignedPlan ==
    (last.op = "settle" /\ last.navigated) =>
        /\ Succeeded(last.outcome)
        /\ page = PlanRoute(IF last.outcome.kind = "timer"
                            THEN last.result.value.plan_id
                            ELSE last.outcome.value.plan_id)

\* C5 as stated: for a success response with body {"plan_id": p}, the
\* promise of safePostRequest resolves to the identifier p itself.
C5_ResolvesToIdentifier ==
    \A p \in PlanIds :
        (last.op = "settle" /\ last.outcome = PlanResponse(p))
            => last.result = Fulfilled(JsString(p))

\* C5: for a success response with body {"plan_id": p}, the promise of
\* safePostRequest resolves to the parsed body, an object whose plan_id is p.
C5_ResolvesToBodyWithIdentifier ==
    \A p \in PlanIds :
        (last.op = "settle" /\ last.outcome = PlanResponse(p))
            => /\ last.result.state = "fulfilled"
               /\ Get(last.result.value, "plan_id") = JsString(p)

C5_Witness ==
    /\ last.op = "settle"
    /\ last.outcome = PlanResponse("UUID-67890")
    /\ last.result = Fulfilled([plan_id |-> "UUID-67890"])

\* C6: every call of safePostRequest / fakeApiCall issues exactly one
\* request: the requests issued equal the calls made, also after failed
\* requests (no retry) and for equal route strings (no deduplication, each
\* call has its own outstanding request).
C6_OneRequestPerCall ==
    /\ fetchCalls = submitCalls
    /\ \A r \in inflight : r.id \in 1..submitCalls
    /\ \A r, q \in inflight : r.id = q.id => r = q

\* a second call for the same route in flight after the first one failed
C6_Witness ==
    /\ last.op = "settle"
    /\ ~Succeeded(last.outcome)
    /\ submitCalls = 2
    /\ fetchCalls = 2
    /\ \E r \in inflight : r.data = last.req.data /\ r.id # last.req.id

\* C7: a failed validation and a failed request both end in the idle form
\* with an error shown, and only a successful request ends in a navigation.
C7_FailuresEndIdle ==
    /\ (last.op = "submit" /\ last.req = NoReq)
           => (page = Home /\ last.noticed # <<>>)
    /\ (last.op = "settle" /\ ~Succeeded(last.outcome))
           => (~last.navigated /\ last.noticed # <<>>)
    /\ (last.op = "settle" /\ last.navigated) => Succeeded(last.outcome)

\* C8: when every outstanding request eventually settles, a loading flag
\* that is true eventually is false again.
C8_LoadingEventuallyCleared == loading ~> ~loading

\* a request settled and the flag is down
C8_Witness == last.op = "settle" /\ ~loading /\ inflight = {}

\* C9: in the Hero variants a submit of a field value that breaks the route
\* rule shows an error and issues no request; the loading flag (false stays
\* false), the field text and the location are left as they are.
C9_RejectedSubmitIsInert ==
    [][(HandleSubmit /\ variant # "home" /\ ~RouteRule(icaoCodes)) =>
          /\ last'.noticed # <<>>
          /\ last'.req = NoReq
          /\ inflight' = inflight
          /\ fetchCalls' = fetchCalls
          /\ submitCalls' = submitCalls
          /\ loading' = loading
          /\ icaoCodes' = icaoCodes
          /\ page' = page]_vars

\* a single code submitted while nothing is outstanding
C9_Witness ==
    /\ variant = "toast"
    /\ last.op = "submit"
    /\ last.text = <<"K", "J", "F", "K">>
    /\ last.noticed = <<Notice("toast.error", "validation", ErrTooFew)>>
    /\ ~loading
    /\ inflight = {}

\* C10: in the toast variant a failed request (network or server side) ends
\* with an error toast and the loading flag cleared.
C10_FailureShowsErrorToast ==
    (variant = "toast" /\ last.op = "settle" /\ ~Succeeded(last.outcome)) =>
        /\ Len(last.noticed) = 1
        /\ last.noticed[1].via = "toast.error"
        /\ ~loading

\* JSON.parse of a string literal: the text between the quotes, \t read as
\* a tab
RECURSIVE Unescaped(_)
Unescaped(b) ==
    IF b = <<>> THEN <<>>
    ELSE IF Len(b) >= 2 /\ b[1] = "\\" /\ b[2] = "t"
         THEN <<"\t">> \o Unescaped(SubSeq(b, 3, Len(b)))
         ELSE <<Head(b)>> \o Unescaped(Tail(b))

IsStringLiteral(b) == Len(b) >= 2 /\ b[1] = "\"" /\ b[Len(b)] = "\""

\* C11: the body of every request a Hero variant issues is the JSON string
\* literal of the field text of that moment (not an array), that text passed
\* the variant's validation, and a request stays as issued until it settles:
\* an edit of the field changes no outstanding request.
C11_BodyIsEncodedFieldText ==
    [][/\ \A r \in inflight' \ inflight :
              /\ r.data = icaoCodes
              /\ ValidationNotices(variant, icaoCodes) = <<>>
              /\ variant # "home" =>
                     /\ IsStringLiteral(r.body)
                     /\ Unescaped(SubSeq(r.body, 2, Len(r.body) - 1)) = icaoCodes
       /\ \A r \in inflight \ inflight' : last'.op = "settle" /\ last'.req = r
       /\ icaoCodes' # icaoCodes => inflight' = inflight]_vars

\* the field was edited while a request with the earlier text is outstanding
C11_Witness ==
    /\ variant = "toast"
    /\ last.op = "edit"
    /\ icaoCodes = <<"K", "J", "F", "K">>
    /\ \E r \in inflight :
           /\ r.data = <<"K", "J", "F", "K", ",", "K", "O", "R", "D">>
           /\ r.body = <<"\"", "K", "J", "F", "K", ",", "K", "O", "R", "D", "\"">>

\* C12: safePostRequest never rejects: whatever the outcome of the fetch its
\* promise is fulfilled, and after a rejected fetch, a non-OK status or an
\* unparseable body it is fulfilled with the object {id: "UUID-12345"}.
C12_NeverRejects ==
    (last.op = "settle" /\ variant # "home") =>
        /\ last.result.state = "fulfilled"
        /\ ~Succeeded(last.outcome) => last.result.value = [id |-> "UUID-12345"]

C12_Witness ==
    /\ last.op = "settle"
    /\ last.outcome = BadBody
    /\ last.result = Fulfilled([id |-> "UUID-12345"])

\* C13: handleSubmit takes no account of the loading flag: while a request
\* is outstanding a submit of a text that passes validation is accepted (up
\* to MaxSubmits calls) and adds a further request to the outstanding ones,
\* and a request leaves the outstanding ones only by settling: none is
\* cancelled.
C13_OverlapNotGuarded ==
    /\ [](( /\ page = Home
            /\ inflight # {}
            /\ ValidationNotices(variant, icaoCodes) = <<>>
            /\ submitCalls < MaxSubmits ) => ENABLED HandleSubmit)
    /\ [][/\ ( /\ HandleSubmit
               /\ inflight # {}
               /\ ValidationNotices(variant, icaoCodes) = <<>> ) =>
                   /\ inflight \subseteq inflight'
                   /\ Cardinality(inflight') = Cardinality(inflight) + 1
                   /\ fetchCalls' = fetchCalls + 1
          /\ \A r \in inflight \ inflight' :
                 /\ last'.op = "settle"
                 /\ last'.req = r
                 /\ last'.outcome \in Outcomes(variant)]_vars

\* two requests in flight at once, the second submitted with the flag up
C13_Witness ==
    /\ Cardinality(inflight) = 2
    /\ loading
    /\ last.op = "submit"
    /\ last.req \in inflight

\* C14: the loading flag of the mounted Hero form is true whenever a request
\* is outstanding and false when none is.
C14_LoadingIffOutstanding ==
    (page = Home /\ variant # "home") => (loading <=> inflight # {})

-----------------------------------------------------------------------------
(* The tokens of a string, stated on its positions *)

\* the positions around the tokens of t: before its start, its commas, and
\* after its end
CommaEdges(t) == {0} \cup {i \in 1..Len(t) : t[i] = ","} \cup {Len(t) + 1}

NextEdge(t, b) ==
    CHOOSE c \in CommaEdges(t) :
        c > b /\ \A d \in CommaEdges(t) : d > b => c <= d

\* the token of t that starts after edge b, stripped
TokenFrom(t, b) == Stripped(SubSeq(t, b + 1, NextEdge(t, b) - 1))

TokenStarts(t) == CommaEdges(t) \ {Len(t) + 1}

\* the stripped tokens of the stripped string, in input order
SpecTokens(s) ==
    LET t == Stripped(s)
        kth(k) == CHOOSE b \in TokenStarts(t) :
                      Cardinality({c \in TokenStarts(t) : c < b}) = k - 1
    IN  [k \in 1..Cardinality(TokenStarts(t)) |-> TokenFrom(t, kth(k))]

\* C15: the reason of an invalid result is the empty-input reason when the
\* trimmed input is empty, else the too-few-codes reason when there are fewer
\* than 2 tokens (also when that token is malformed), else the reason naming
\* the first token in input order that is not 4 upper-case letters.
C15_ReasonOrder ==
    (verdict.done /\ verdict.error # Null) =>
        LET t == Stripped(str)
            failing == {b \in TokenStarts(t) : ~FourUpper(TokenFrom(t, b))}
        IN  IF t = <<>> THEN verdict.error = ErrEmpty
            ELSE IF Cardinality(TokenStarts(t)) < 2
                 THEN verdict.error = ErrTooFew
            ELSE /\ failing # {}
                 /\ verdict.error =
                        ErrInvalid(TokenFrom(t, CHOOSE b \in failing :
                                                    \A c \in failing : b <= c))

\* a single malformed token gets the too-few-codes reason
C15_Witness ==
    /\ verdict.done
    /\ str = <<"K", "J", "F">>
    /\ verdict.error = ErrTooFew

\* C16 as stated: on success the validator's result is the list of codes,
\* the trimmed tokens in input order.
C16_SuccessYieldsCodes ==
    (verdict.done /\ RouteRule(str)) =>
        verdict.error = [t |-> "codes", codes |-> SpecTokens(str)]

\* C16: on success validateICAOList returns null and isValidICAOList true,
\* no list; the trimmed tokens in input order are validateICAOList's local
\* `codes`, which is not part of the result.
C16_SuccessReturnsNull ==
    (verdict.done /\ RouteRule(str)) =>
        /\ verdict.error = Null
        /\ verdict.regex
        /\ codesOf(str) = SpecTokens(str)

C16_Witness ==
    /\ verdict.done
    /\ verdict.error = Null
    /\ str = <<"K", "J", "F", "K", ",", "K", "O", "R", "D", ",",
               " ", "K", "S", "F", "O", "\t">>
    /\ codesOf(str) = << <<"K", "J", "F", "K">>, <<"K", "O", "R", "D">>,
                         <<"K", "S", "F", "O">> >>

\* the lower-case letters with their upper-case forms
CasePairs ==
    {<<"k", "K">>, <<"j", "J">>, <<"f", "F">>, <<"o", "O">>, <<"r", "R">>,
     <<"d", "D">>}

\* C17: the field text holds no lower-case letter; after an edit it is the
\* typed text with each lower-case letter replaced by its upper-case form
\* and nothing else changed (same length, same white space and commas); the
\* text a submit validates is that stored text.
C17_FieldIsUpperCasedInput ==
    /\ \A i \in 1..Len(icaoCodes) : icaoCodes[i] \notin LowerLetters
    /\ last.op = "edit" =>
           /\ Len(icaoCodes) = Len(last.text)
           /\ \A i \in 1..Len(last.text) :
                  IF last.text[i] \in LowerLetters
                  THEN <<last.text[i], icaoCodes[i]>> \in CasePairs
                  ELSE icaoCodes[i] = last.text[i]
    /\ last.op = "submit" => last.text = icaoCodes

\* a text typed in lower case with a leading blank is stored upper-cased,
\* blank kept
C17_Witness ==
    /\ last.op = "edit"
    /\ last.text = <<" ", "k", "o", "r", "d">>
    /\ icaoCodes = <<" ", "K", "O", "R", "D">>

C20_ValidatorsAgree ==
    verdict.done => (verdict.regex <=> verdict.error = Null)

\* both reject an input with an empty token between two codes
C20_Witness ==
    /\ verdict.done
    /\ ~verdict.regex
    /\ verdict.error = ErrInvalid(<<>>)
    /\ str = <<"K", "J", "F", "K", ",", ",", "K", "O", "R", "D">>

\* the positions of s strictly between a and b hold white space only
BlankBetween(s, a, b) == \A k \in (a + 1)..(b - 1) : s[k] \in WhiteSpace

\* s has a leading comma, a trailing comma or two commas next to each other,
\* white space aside
HasEmptyToken(s) ==
    \E i \in 1..Len(s) :
        /\ s[i] = ","
        /\ \/ BlankBetween(s, 0, i)
           \/ BlankBetween(s, i, Len(s) + 1)
           \/ \E j \in (i + 1)..Len(s) : s[j] = "," /\ BlankBetween(s, i, j)

\* the number of tokens of s that are four upper-case letters
ValidTokens(s) ==
    Cardinality({b \in TokenStarts(Stripped(s)) :
                     FourUpper(TokenFrom(Stripped(s), b))})

\* C21: an input with an empty token (leading comma, trailing comma, two
\* adjacent commas, white space aside) is rejected by validateICAOList and
\* by isValidICAOList, also when two or more of its other tokens are valid
\* codes; the empty token is counted and checked like any other, so the
\* reason is the invalid-code one and never the too-few-codes one.
C21_EmptyTokenRejected ==
    (verdict.done /\ HasEmptyToken(str)) =>
        /\ ~verdict.regex
        /\ verdict.error # Null
        /\ verdict.error.reason = "invalid_code"
        /\ ValidTokens(str) = Cardinality(TokenStarts(Stripped(str))) - 1
               => verdict.error = ErrInvalid(<<>>)

\* two valid codes around a blank token
C21_Witness ==
    /\ verdict.done
    /\ str = <<"K", "J", "F", "K", ",", " ", ",", "K", "O", "R", "D">>
    /\ HasEmptyToken(str)
    /\ ValidTokens(str) = 2
    /\ verdict.error = ErrInvalid(<<>>)
    /\ ~verdict.regex

\* C22: in the toast variant every settled submission shows exactly one
\* outcome toast, success or error, and the success toast only when its
\* request completed with a success status.
C22_SuccessToastOnlyOnSuccess ==
    (variant = "toast" /\ last.op = "settle") =>
        /\ Len(last.noticed) = 1
        /\ last.noticed[1].via \in {"toast.success", "toast.error"}
        /\ last.noticed[1].via = "toast.success" => Succeeded(last.outcome)

\* C19: the plan page is in its loading state exactly until the first mocked
\* fetch settles; the mock resolves with a plan whose plan_id is the id it
\* was called with; the page never shows "Plan not found", and when every
\* timer fires it eventually shows a plan and keeps showing one.
C19_PlanPageShowsPlan ==
    /\ [](/\ detail.loading <=> Len(detail.fetches) = detail.changes + 1
          /\ detail.served # "" =>
                 /\ detail.plan # Null
                 /\ detail.plan.plan_id = detail.served
          /\ View # "not_found")
    /\ <>[](View = "plan")

\* the plan of the requested id is on show and no fetch is pending
C19_Witness ==
    /\ View = "plan"
    /\ detail.fetches = <<>>
    /\ detail.variant = "typed"
    /\ detail.plan.plan_id = detail.id
    /\ detail.id = "UUID-67890"

\* C23: whenever the plan page is not in its loading state and holds a
\* fetched plan, the plan_id of that plan is the current route id, also
\* after the route id changed while the page was mounted.
C23_PlanIsOfCurrentRoute ==
    (~detail.loading /\ detail.served # "") =>
        detail.plan.plan_id = detail.id

=============================================================================
